---- MODULE Spec2Model ----
(***************************************************************************)
(* SIYI_RTSP camera stream session (src/main.py): start_connection, the    *)
(* acquisition thread recv_thread_loop, close_connection,                  *)
(* get_current_frame and set_show_window, running as Python threads that   *)
(* interleave between statements.                                          *)
(*                                                                         *)
(* Reading of attribute access.  Specification Spec (and FairSpec,         *)
(* FairStopSpec, which add fairness of the loop thread) reads every        *)
(* self.<field> of the method bodies as a load or store of the field.  The *)
(* class also declares self-referential property accessors for stopped,    *)
(* show_window, connection_timeout, debug, image_width and image_height    *)
(* (lines 177-345); AccessorSpec follows __init__ and set_show_window      *)
(* through those accessors as they are written.  CodecSpec applies the     *)
(* module's toHexVal and toIntVal to every width and value in its bounds.  *)
(*                                                                         *)
(* Time is in seconds.  The clock advances in steps of half the timeout,   *)
(* so that an elapsed time equal to the timeout and one above it both      *)
(* occur.                                                                  *)
(***************************************************************************)
EXTENDS Integers, FiniteSets, Sequences, TLC

\* ---- bounds ----
MaxTime == 20          \* the clock stops advancing here
MaxFrame == 2          \* distinct frames the stream can yield: 1..MaxFrame
MaxStops == 2          \* external close_connection calls start while stop_calls is below this

MaxGraceReads == 2     \* reads_after_stop stops counting here
RecursionLimit == 60   \* setter frames the interpreter allows before RecursionError
MaxBits == 16          \* widths given to toHexVal: 1..MaxBits

\* ---- program constants ----
connection_timeout == 10      \* self.connection_timeout = 10.0
bits == 16                    \* bits = 16 in toIntVal

TickStep == connection_timeout \div 2

None == 0
Frames == 1..MaxFrame
FrameOrNone == {None} \cup Frames
Callers == {"a", "b"}
OpenFaults == {"ConnectionError", "FileNotFoundError", "Exception"}
Unset == "unset"       \* an attribute the instance does not have yet

\* The attribute assignments of __init__, lines 122-152, in order; property
\* marks the names the class defines as properties (lines 177-345).
CtorAssignments ==
    << [name |-> "rtsp_url", value |-> "url", property |-> FALSE],
       [name |-> "camera_name", value |-> "name", property |-> FALSE],
       [name |-> "image_width", value |-> "1200", property |-> TRUE],
       [name |-> "image_height", value |-> "700", property |-> TRUE],
       [name |-> "current_frame", value |-> "None", property |-> FALSE],
       [name |-> "debug", value |-> "debug", property |-> TRUE],
       [name |-> "logger", value |-> "Logger", property |-> FALSE],
       [name |-> "stopped", value |-> "False", property |-> TRUE],
       [name |-> "show_window", value |-> "False", property |-> TRUE],
       [name |-> "last_image_time", value |-> "time", property |-> FALSE],
       [name |-> "connection_timeout", value |-> "10.0", property |-> TRUE],
       [name |-> "recv_thread", value |-> "Thread", property |-> FALSE] >>

\* The instance with every assignment of __init__ stored.
AllStored ==
    [n \in {CtorAssignments[i].name : i \in 1..Len(CtorAssignments)} |->
        CtorAssignments[CHOOSE i \in 1..Len(CtorAssignments) :
                            CtorAssignments[i].name = n].value]

VARIABLES
    now,                 \* time.time()
    main_pc,             \* the constructing thread: "start_connection", "returned", "raised"
    raised,              \* what start_connection raised: "none", "AttributeError", "SystemExit"
    error_logged,        \* the logger.error record start_connection emitted, or "none"
    stream_video,        \* the Stream Handle: "unset", "open", "closed"
    stop_calls,          \* executions of stream_video.stop()
    stopped,
    show_window,
    current_frame,
    last_image_time,
    current_image_time,  \* local of recv_thread_loop
    recv_pc,             \* position of recv_thread
    caller_pc,           \* position of each external caller
    result,              \* value a get_current_frame call returned
    seen,                \* values current_frame held during a caller's get_current_frame call
    reads_after_stop,    \* reads the loop has completed since stopped became true
    acc_call,            \* the call running through the property accessors, or "none"
    acc_val,             \* the value that call is assigning
    acc_last,            \* the last call that ended, or "none"
    acc_exc,             \* what that call raised, or "none"
    depth,               \* nested setter frames on the stack
    ctor_index,          \* the assignment of __init__ reached, in CtorAssignments
    instance_dict,       \* attributes stored in the instance, name -> value
    codec_pc,            \* position of the codec round trip: "encode", "decode", "done"
    codec_nbits,         \* nbits given to toHexVal
    codec_in,            \* intValue given to toHexVal
    codec_hex,           \* the hexadecimal string, a sequence of digits 0..15
    codec_out            \* what toIntVal returned

vars == <<now, main_pc, raised, error_logged, stream_video, stop_calls, stopped,
          show_window, current_frame, last_image_time, current_image_time,
          recv_pc, caller_pc, result, seen, reads_after_stop,
          acc_call, acc_val, acc_last, acc_exc, depth, ctor_index, instance_dict,
          codec_pc, codec_nbits, codec_in, codec_hex, codec_out>>

accessors == <<acc_call, acc_val, acc_last, acc_exc, depth, ctor_index, instance_dict>>
codec == <<codec_pc, codec_nbits, codec_in, codec_hex, codec_out>>
\* What the session's own steps leave alone.
aux == <<accessors, codec>>

session == <<stopped, show_window, current_frame, last_image_time, current_image_time>>
startup == <<main_pc, raised, error_logged>>
callers == <<caller_pc, result, seen>>

TypeOK ==
    /\ now \in 0..MaxTime
    /\ main_pc \in {"start_connection", "returned", "raised"}
    /\ raised \in {"none", "AttributeError", "SystemExit"}
    /\ error_logged \in {"none", "file_err", "conn_err", "other_err"}
    /\ stream_video \in {"unset", "open", "closed"}
    /\ stop_calls \in Nat
    /\ stopped \in BOOLEAN
    /\ show_window \in BOOLEAN
    /\ current_frame \in FrameOrNone
    /\ last_image_time \in 0..MaxTime
    /\ current_image_time \in 0..MaxTime
    /\ recv_pc \in {"unstarted", "start", "check", "read", "eval", "show",
                    "stale_close", "quit_close", "set_stopped", "done"}
    /\ caller_pc \in [Callers -> {"idle", "close_set", "get_return", "got"}]
    /\ result \in [Callers -> FrameOrNone]
    /\ seen \in [Callers -> SUBSET FrameOrNone]
    /\ reads_after_stop \in 0..MaxGraceReads
    /\ acc_call \in {"none", "__init__", "set_show_window"}
    /\ depth \in 0..RecursionLimit
    /\ ctor_index \in 1..(Len(CtorAssignments) + 1)
    /\ codec_pc \in {"encode", "decode", "done"}
    /\ codec_nbits \in 1..MaxBits

\* No codec call is in progress.
CodecIdle ==
    /\ codec_pc = "done"
    /\ codec_nbits = 16
    /\ codec_in = 0
    /\ codec_hex = <<>>
    /\ codec_out = 0

\* __init__, lines 121-152: the state in which start_connection is called,
\* every assignment of __init__ read as a store.
Init ==
    /\ now = 0
    /\ main_pc = "start_connection"
    /\ raised = "none"
    /\ error_logged = "none"
    /\ stream_video = "unset"
    /\ stop_calls = 0
    /\ stopped = FALSE
    /\ show_window = FALSE
    /\ current_frame = None
    /\ last_image_time = 0
    /\ current_image_time = 0
    /\ recv_pc = "unstarted"
    /\ caller_pc = [c \in Callers |-> "idle"]
    /\ result = [c \in Callers |-> None]
    /\ seen = [c \in Callers |-> {}]
    /\ reads_after_stop = 0
    /\ acc_call = "none"
    /\ acc_val = "none"
    /\ acc_last = "none"
    /\ acc_exc = "none"
    /\ depth = 0
    /\ ctor_index = Len(CtorAssignments) + 1
    /\ instance_dict = AllStored
    /\ CodecIdle

\* The clock.
Tick ==
    /\ now + TickStep <= MaxTime
    /\ now' = now + TickStep
    /\ UNCHANGED <<aux, reads_after_stop, startup, stream_video, stop_calls, session, recv_pc, callers>>

\* ---- start_connection, lines 359-381 ----

\* What each except clause does with the fault raised by opening the stream.
\* Lines 370 and 380 evaluate self.cameraName, an attribute __init__ never
\* sets (it sets camera_name): the argument list raises AttributeError before
\* logger.error or exit(1) run.  Line 375 logs the file name and exits.
HandleOpenFault(fault) ==
    IF fault = "FileNotFoundError"
    THEN [logged |-> "file_err", raised |-> "SystemExit"]
    ELSE [logged |-> "none", raised |-> "AttributeError"]

\* What a logger.error record of start_connection contains.
NamesCamera(rec) == rec \in {"conn_err", "other_err"}
NamesError(rec) == rec \in {"conn_err", "other_err"}

\* Lines 364-366: the stream opens and recv_thread starts.
StartConnectionOk ==
    /\ main_pc = "start_connection"
    /\ stream_video' = "open"
    /\ recv_pc' = "start"
    /\ main_pc' = "returned"
    /\ UNCHANGED <<aux, reads_after_stop, now, raised, error_logged, stop_calls, session, callers>>

\* Line 365 raises; lines 368-381 handle it.
StartConnectionFails ==
    /\ main_pc = "start_connection"
    /\ \E fault \in OpenFaults :
         /\ error_logged' = HandleOpenFault(fault).logged
         /\ raised' = HandleOpenFault(fault).raised
    /\ main_pc' = "raised"
    /\ UNCHANGED <<aux, reads_after_stop, now, stream_video, stop_calls, session, recv_pc, callers>>

\* ---- close_connection, lines 415-423 ----

\* Line 422, self.stream_video.stop().
StreamAfterStop(s) == "closed"

\* Mutation of StoppedAfterClose: the flag is toggled instead of set.
StoppedAfterClose_Toggle(s) == ~s

\* Line 423, self.stopped = True.
StoppedAfterClose(s) == TRUE

\* ---- recv_thread_loop, lines 383-413 ----

\* Mutation of Stale: the comparison made non-strict.
Stale_NonStrict(cit, lit) == cit - lit >= connection_timeout

\* Line 393.
Stale(cit, lit) == cit - lit > connection_timeout

\* Mutation of ClockAfter: a miss resets the liveness clock too.
ClockAfter_MissResets(frame, cit, lit) ==
    IF Stale(cit, lit) THEN lit ELSE cit

\* Mutation of ClockAfter: the elapsed time is stored instead of the sample.
ClockAfter_StoresElapsed(frame, cit, lit) ==
    IF Stale(cit, lit) THEN lit
    ELSE IF frame = None THEN lit
    ELSE cit - lit

\* Mutation of ClockAfter: line 401 is left out.
ClockAfter_NeverResets(frame, cit, lit) == lit

\* Lines 393-401: last_image_time after the iteration's tests.
ClockAfter(frame, cit, lit) ==
    IF Stale(cit, lit) THEN lit
    ELSE IF frame = None THEN lit
    ELSE cit

\* Mutation of PcAfter: the miss test placed before the timeout test.
PcAfter_MissFirst(frame, cit, lit, show) ==
    IF frame = None THEN "check"
    ELSE IF Stale(cit, lit) THEN "stale_close"
    ELSE IF show THEN "show"
    ELSE "check"

\* Lines 393-403: where the iteration goes after the read.
PcAfter(frame, cit, lit, show) ==
    IF Stale(cit, lit) THEN "stale_close"
    ELSE IF frame = None THEN "check"
    ELSE IF show THEN "show"
    ELSE "check"

\* Each caller inside get_current_frame sees the value now stored.
SeenWith(f) ==
    [c \in Callers |-> IF caller_pc[c] = "get_return" THEN seen[c] \cup {f} ELSE seen[c]]

\* Line 387.
LoopStart ==
    /\ recv_pc = "start"
    /\ last_image_time' = now
    /\ recv_pc' = "check"
    /\ UNCHANGED <<aux, reads_after_stop, now, startup, stream_video, stop_calls, stopped, show_window,
                   current_frame, current_image_time, callers>>

\* Mutation of LoopCondition: the loop does not look at stopped.
LoopCondition_Always(s) == TRUE

\* Line 388, while not self.stopped.
LoopCondition(s) == ~s

\* Line 388, the loop condition; lines 412-413 when it fails.
LoopCheck ==
    /\ recv_pc = "check"
    /\ recv_pc' = IF LoopCondition(stopped) THEN "read" ELSE "done"
    /\ UNCHANGED <<aux, reads_after_stop, now, startup, stream_video, stop_calls, session, callers>>

\* Lines 389-392: the read returns a frame or None, its result is stored in
\* current_frame whatever it is, and the time is sampled.
ReadFrame ==
    /\ recv_pc = "read"
    /\ \E f \in FrameOrNone :
         /\ current_frame' = f
         /\ seen' = SeenWith(f)
    /\ current_image_time' = now
    /\ reads_after_stop' = IF stopped /\ reads_after_stop < MaxGraceReads
                           THEN reads_after_stop + 1
                           ELSE reads_after_stop
    /\ recv_pc' = "eval"
    /\ UNCHANGED <<aux, now, startup, stream_video, stop_calls, stopped, show_window,
                   last_image_time, caller_pc, result>>

\* Lines 393-403: the timeout test, the miss test, the clock update and the
\* preview test.
Evaluate ==
    /\ recv_pc = "eval"
    /\ last_image_time' = ClockAfter(current_frame, current_image_time, last_image_time)
    /\ recv_pc' = PcAfter(current_frame, current_image_time, last_image_time, show_window)
    /\ UNCHANGED <<aux, reads_after_stop, now, startup, stream_video, stop_calls, stopped, show_window,
                   current_frame, current_image_time, callers>>

\* Lines 404-410: imshow, waitKey and the quit test.
ShowFrame ==
    /\ recv_pc = "show"
    /\ \E key \in {"q", "other"} :
         recv_pc' = IF key = "q" THEN "quit_close" ELSE "check"
    /\ UNCHANGED <<aux, reads_after_stop, now, startup, stream_video, stop_calls, session, callers>>

\* Line 395 or 409 calling close_connection: lines 419-422.
LoopCloseStop ==
    /\ recv_pc \in {"stale_close", "quit_close"}
    /\ stream_video' = StreamAfterStop(stream_video)
    /\ stop_calls' = stop_calls + 1
    /\ recv_pc' = "set_stopped"
    /\ UNCHANGED <<aux, reads_after_stop, now, startup, session, callers>>

\* Line 423 in the loop's own close_connection, then break and lines 412-413.
LoopSetStopped ==
    /\ recv_pc = "set_stopped"
    /\ stopped' = StoppedAfterClose(stopped)
    /\ recv_pc' = "done"
    /\ UNCHANGED <<aux, reads_after_stop, now, startup, stream_video, stop_calls, show_window, current_frame,
                   last_image_time, current_image_time, callers>>

Loop ==
    \/ LoopStart
    \/ LoopCheck
    \/ ReadFrame
    \/ Evaluate
    \/ ShowFrame
    \/ LoopCloseStop
    \/ LoopSetStopped

\* ---- external callers of the constructed session ----

\* close_connection called from outside, lines 419-422.
CloseStop(c) ==
    /\ main_pc = "returned"
    /\ caller_pc[c] = "idle"
    /\ stop_calls < MaxStops
    /\ stream_video' = StreamAfterStop(stream_video)
    /\ stop_calls' = stop_calls + 1
    /\ caller_pc' = [caller_pc EXCEPT ![c] = "close_set"]
    /\ UNCHANGED <<aux, reads_after_stop, now, startup, session, recv_pc, result, seen>>

\* Mutation of CloseSet: close_connection joins recv_thread before it returns.
CloseSet_Join(c) ==
    /\ caller_pc[c] = "close_set"
    /\ recv_pc \in {"unstarted", "done"}
    /\ stopped' = StoppedAfterClose(stopped)
    /\ caller_pc' = [caller_pc EXCEPT ![c] = "idle"]
    /\ UNCHANGED <<aux, reads_after_stop, now, startup, stream_video, stop_calls, show_window, current_frame,
                   last_image_time, current_image_time, recv_pc, result, seen>>

\* Mutation of CloseSet: close_connection also clears the frame slot.
CloseSet_ClearsFrame(c) ==
    /\ caller_pc[c] = "close_set"
    /\ stopped' = StoppedAfterClose(stopped)
    /\ current_frame' = None
    /\ caller_pc' = [caller_pc EXCEPT ![c] = "idle"]
    /\ UNCHANGED <<aux, reads_after_stop, now, startup, stream_video, stop_calls, show_window,
                   last_image_time, current_image_time, recv_pc, result, seen>>

\* Line 423 and the return of close_connection.
CloseSet(c) ==
    /\ caller_pc[c] = "close_set"
    /\ stopped' = StoppedAfterClose(stopped)
    /\ caller_pc' = [caller_pc EXCEPT ![c] = "idle"]
    /\ UNCHANGED <<aux, reads_after_stop, now, startup, stream_video, stop_calls, show_window, current_frame,
                   last_image_time, current_image_time, recv_pc, result, seen>>

\* Mutation of FrameReturned: a placeholder frame stands in for an empty slot.
FrameReturned_Placeholder(f) == IF f = None THEN 1 ELSE f

\* Line 357, the value get_current_frame returns from its second load.
FrameReturned(f) == f

\* get_current_frame, lines 355-356: the first load of current_frame.
GetCheck(c) ==
    /\ main_pc = "returned"
    /\ caller_pc[c] = "idle"
    /\ seen' = [seen EXCEPT ![c] = {current_frame}]
    /\ IF current_frame = None
       THEN /\ result' = [result EXCEPT ![c] = None]
            /\ caller_pc' = [caller_pc EXCEPT ![c] = "got"]
       ELSE /\ caller_pc' = [caller_pc EXCEPT ![c] = "get_return"]
            /\ UNCHANGED result
    /\ UNCHANGED <<aux, reads_after_stop, now, startup, stream_video, stop_calls, session, recv_pc>>

\* get_current_frame, line 357: the second load, returned.
GetReturn(c) ==
    /\ caller_pc[c] = "get_return"
    /\ result' = [result EXCEPT ![c] = FrameReturned(current_frame)]
    /\ caller_pc' = [caller_pc EXCEPT ![c] = "got"]
    /\ UNCHANGED <<aux, reads_after_stop, now, startup, stream_video, stop_calls, session, recv_pc, seen>>

\* The caller has the value and is free to call again.
GetDone(c) ==
    /\ caller_pc[c] = "got"
    /\ caller_pc' = [caller_pc EXCEPT ![c] = "idle"]
    /\ result' = [result EXCEPT ![c] = None]
    /\ seen' = [seen EXCEPT ![c] = {}]
    /\ UNCHANGED <<aux, reads_after_stop, now, startup, stream_video, stop_calls, session, recv_pc>>

\* set_show_window, lines 281-293.
SetShowWindow(c, new_val) ==
    /\ main_pc = "returned"
    /\ caller_pc[c] = "idle"
    /\ show_window' = new_val
    /\ UNCHANGED <<aux, reads_after_stop, now, startup, stream_video, stop_calls, stopped, current_frame,
                   last_image_time, current_image_time, recv_pc, callers>>

ExternalClose == \E c \in Callers : CloseStop(c) \/ CloseSet(c)

ExternalGet == \E c \in Callers : GetCheck(c) \/ GetReturn(c) \/ GetDone(c)

ExternalPreview == \E c \in Callers, v \in BOOLEAN : SetShowWindow(c, v)

Next ==
    \/ Tick
    \/ StartConnectionOk
    \/ StartConnectionFails
    \/ Loop
    \/ ExternalClose
    \/ ExternalGet
    \/ ExternalPreview

Spec == Init /\ [][Next]_vars

\* The session with no external close_connection call; recv_thread is a
\* started thread and keeps being scheduled while it has a step to take.
NextNoExternalClose ==
    \/ Tick
    \/ StartConnectionOk
    \/ StartConnectionFails
    \/ Loop
    \/ ExternalGet
    \/ ExternalPreview

FairSpec == Init /\ [][NextNoExternalClose]_vars /\ WF_vars(Loop)

\* The session without get_current_frame calls, recv_thread scheduled fairly.
NextNoExternalGet ==
    \/ Tick
    \/ StartConnectionOk
    \/ StartConnectionFails
    \/ Loop
    \/ ExternalClose
    \/ ExternalPreview

FairStopSpec == Init /\ [][NextNoExternalGet]_vars /\ WF_vars(Loop)

\* ---- the property accessors, lines 177-345 ----
\* Each setter's body is self.<name> = new_val, an assignment to the property
\* itself: it calls the same setter again and stores nothing.  AccessorSpec
\* follows __init__ and set_show_window through the accessors as written.

\* __init__ is at an assignment to a property, or set_show_window is at
\* line 293.
PendingProperty ==
    \/ /\ acc_call = "__init__"
       /\ ctor_index <= Len(CtorAssignments)
       /\ CtorAssignments[ctor_index].property
    \/ acc_call = "set_show_window"

\* The instance at the start of __init__: no attribute yet.
AccessorInit ==
    /\ now = 0
    /\ main_pc = "__init__"
    /\ raised = "none"
    /\ error_logged = "none"
    /\ stream_video = Unset
    /\ stop_calls = 0
    /\ stopped = Unset
    /\ show_window = Unset
    /\ current_frame = Unset
    /\ last_image_time = Unset
    /\ current_image_time = Unset
    /\ recv_pc = "unstarted"
    /\ caller_pc = [c \in Callers |-> "idle"]
    /\ result = [c \in Callers |-> None]
    /\ seen = [c \in Callers |-> {}]
    /\ reads_after_stop = 0
    /\ acc_call = "__init__"
    /\ acc_val = "none"
    /\ acc_last = "none"
    /\ acc_exc = "none"
    /\ depth = 0
    /\ ctor_index = 1
    /\ instance_dict = <<>>
    /\ CodecIdle

sessionAll == <<now, startup, stream_video, stop_calls, session, recv_pc, callers,
                reads_after_stop>>

\* An assignment of __init__ to a plain attribute (lines 122, 125, 132, 139,
\* 146, 152); after the last one __init__ goes on to start_connection.
CtorStore ==
    /\ acc_call = "__init__"
    /\ ctor_index <= Len(CtorAssignments)
    /\ ~CtorAssignments[ctor_index].property
    /\ instance_dict' = (CtorAssignments[ctor_index].name :> CtorAssignments[ctor_index].value)
                            @@ instance_dict
    /\ ctor_index' = ctor_index + 1
    /\ IF ctor_index = Len(CtorAssignments)
       THEN acc_call' = "none" /\ acc_last' = "__init__"
       ELSE UNCHANGED <<acc_call, acc_last>>
    /\ UNCHANGED <<acc_val, acc_exc, depth, codec, sessionAll>>

\* Whether one more setter frame fits on the stack.
FrameFits(d) == d < RecursionLimit

\* A setter runs its body (lines 201, 227, 253, 279, 319, 345): the
\* assignment enters the same setter once more.
AccessorEnter ==
    /\ PendingProperty
    /\ FrameFits(depth)
    /\ depth' = depth + 1
    /\ UNCHANGED <<acc_call, acc_val, acc_last, acc_exc, ctor_index, instance_dict,
                   codec, sessionAll>>

\* The stack is full: RecursionError unwinds every frame and leaves the call.
AccessorOverflow ==
    /\ PendingProperty
    /\ ~FrameFits(depth)
    /\ acc_exc' = "RecursionError"
    /\ acc_last' = acc_call
    /\ acc_call' = "none"
    /\ depth' = 0
    /\ UNCHANGED <<acc_val, ctor_index, instance_dict, codec, sessionAll>>

\* The values set_show_window is given, as instance_dict holds them.
PyBool == {"True", "False"}

\* set_show_window(new_val) called on the instance, lines 281-293.
SetShowWindowCall(new_val) ==
    /\ acc_call = "none"
    /\ acc_call' = "set_show_window"
    /\ acc_val' = new_val
    /\ acc_exc' = "none"
    /\ UNCHANGED <<acc_last, depth, ctor_index, instance_dict, codec, sessionAll>>

AccessorNext ==
    \/ CtorStore
    \/ AccessorEnter
    \/ AccessorOverflow
    \/ \E v \in PyBool : SetShowWindowCall(v)

AccessorSpec == AccessorInit /\ [][AccessorNext]_vars

\* ---- toHexVal and toIntVal, lines 32-75 ----

Pow2(n) == 2 ^ n

\* format(n, 'x'): the hexadecimal digits of n >= 0, most significant first,
\* without leading zeros.
RECURSIVE FormatHex(_)
FormatHex(n) == IF n < 16 THEN <<n>> ELSE FormatHex(n \div 16) \o <<n % 16>>

\* str.zfill(width): zeros on the left up to width.
RECURSIVE ZFill(_, _)
ZFill(str, width) == IF Len(str) >= width THEN str ELSE ZFill(<<0>> \o str, width)

\* int(hexValue, 16).
RECURSIVE ParseHex(_)
ParseHex(str) ==
    IF str = <<>> THEN 0
    ELSE 16 * ParseHex(SubSeq(str, 1, Len(str) - 1)) + str[Len(str)]

\* Lines 53-56.
toHexVal(intValue, nbits) ==
    LET max_nbits_value == Pow2(nbits)
        validateVal == (intValue + max_nbits_value) % max_nbits_value
    IN  ZFill(FormatHex(validateVal), (nbits + 3) \div 4)

\* Mutation of toIntVal: the sign test is left out.
toIntVal_Unsigned(hexValue) == ParseHex(hexValue)

\* Lines 71-75: intValue & (1 << (bits-1)) tests bit bits-1.
toIntVal(hexValue) ==
    LET intValue == ParseHex(hexValue)
    IN  IF (intValue \div Pow2(bits - 1)) % 2 = 1
        THEN intValue - Pow2(bits)
        ELSE intValue

\* The signed range of a width.
SignedRange(nbits) == (0 - Pow2(nbits - 1)) .. (Pow2(nbits - 1) - 1)

\* A round trip on any width up to MaxBits and any value of its signed range.
CodecInit ==
    /\ now = 0
    /\ main_pc = "start_connection"
    /\ raised = "none"
    /\ error_logged = "none"
    /\ stream_video = "unset"
    /\ stop_calls = 0
    /\ stopped = FALSE
    /\ show_window = FALSE
    /\ current_frame = None
    /\ last_image_time = 0
    /\ current_image_time = 0
    /\ recv_pc = "unstarted"
    /\ caller_pc = [c \in Callers |-> "idle"]
    /\ result = [c \in Callers |-> None]
    /\ seen = [c \in Callers |-> {}]
    /\ reads_after_stop = 0
    /\ acc_call = "none"
    /\ acc_val = "none"
    /\ acc_last = "none"
    /\ acc_exc = "none"
    /\ depth = 0
    /\ ctor_index = Len(CtorAssignments) + 1
    /\ instance_dict = AllStored
    /\ codec_pc = "encode"
    /\ codec_nbits \in 1..MaxBits
    /\ codec_in \in SignedRange(codec_nbits)
    /\ codec_hex = <<>>
    /\ codec_out = 0

Encode ==
    /\ codec_pc = "encode"
    /\ codec_hex' = toHexVal(codec_in, codec_nbits)
    /\ codec_pc' = "decode"
    /\ UNCHANGED <<codec_nbits, codec_in, codec_out, accessors, sessionAll>>

Decode ==
    /\ codec_pc = "decode"
    /\ codec_out' = toIntVal(codec_hex)
    /\ codec_pc' = "done"
    /\ UNCHANGED <<codec_nbits, codec_in, codec_hex, accessors, sessionAll>>

CodecNext == Encode \/ Decode

CodecSpec == CodecInit /\ [][CodecNext]_vars

\* ---- claims ----

LoopClosePcs == {"stale_close", "quit_close"}

\* C1: whatever the number and interleaving of close_connection calls,
\* stream_video.stop() is executed at most once in total.
C1_SingleTeardown == stop_calls <= 1

\* C2: with recv_thread scheduled fairly and no external close_connection,
\* once the loop is about to read (or has just read nothing) while the clock
\* is more than connection_timeout past last_image_time, the loop tears the
\* session down itself: stopped becomes true after exactly one stop of the
\* stream.
C2_StaleNoFrame ==
    /\ now - last_image_time > connection_timeout
    /\ \/ recv_pc \in {"check", "read"}
       \/ recv_pc = "eval" /\ current_frame = None

C2_StalenessShutdown ==
    C2_StaleNoFrame ~> (stopped /\ stop_calls = 1 /\ recv_pc = "done")

\* C2 witness: the loop has ended by its own staleness teardown after a miss.
C2_Witness ==
    /\ recv_pc = "done"
    /\ stopped
    /\ stop_calls = 1
    /\ current_frame = None
    /\ current_image_time - last_image_time > connection_timeout

\* C3: once stopped is true, a frame the loop has stored is never cleared to
\* none nor replaced: get_current_frame keeps returning it.
C3_FrameFrozen ==
    [][(stopped /\ current_frame # None) => current_frame' = current_frame]_vars

\* C4: a read of the loop never turns a stored frame back into none.
C4_MissKeepsFrame ==
    [][(recv_pc = "read" /\ current_frame # None) => current_frame' # None]_vars

\* C5: last_image_time changes only at loop start and in an iteration whose
\* read yielded a frame; a miss leaves it unchanged.
C5_MissKeepsClock ==
    [][last_image_time' # last_image_time =>
          \/ recv_pc = "start"
          \/ recv_pc = "eval" /\ current_frame # None]_vars

\* C5 witness: an iteration whose read returned nothing, sampled later than
\* last_image_time, has completed and the loop is back at its condition.
C5_Witness ==
    /\ recv_pc = "check"
    /\ current_frame = None
    /\ current_image_time > last_image_time

\* C6: stopped is a one-way latch: no step takes it from true to false.
C6_StoppedLatch == [][stopped => stopped']_vars

\* C6 witness: stopped is already true while another close_connection is
\* about to write the flag again.
C6_Witness == stopped /\ \E c \in Callers : caller_pc[c] = "close_set"

\* C7: the loop enters its teardown only from an iteration whose elapsed time
\* is strictly above connection_timeout or from the preview's quit test, and
\* stopped becomes true only in the last statement of a close_connection run
\* by the loop or by an external caller.
C7_TeardownOnlyStaleOrQuit ==
    [][/\ (recv_pc' = "stale_close" /\ recv_pc # "stale_close") =>
             /\ recv_pc = "eval"
             /\ current_image_time - last_image_time > connection_timeout
       /\ (recv_pc' = "quit_close" /\ recv_pc # "quit_close") => recv_pc = "show"
       /\ (recv_pc' = "set_stopped" /\ recv_pc # "set_stopped") => recv_pc \in LoopClosePcs
       /\ (~stopped /\ stopped') =>
             \/ recv_pc = "set_stopped" /\ recv_pc' = "done"
             \/ \E c \in Callers : caller_pc[c] = "close_set" /\ caller_pc'[c] = "idle"]_vars

\* C7 witness: an iteration whose elapsed time equals connection_timeout has
\* completed and the session is still running, never closed.
C7_Witness ==
    /\ recv_pc = "check"
    /\ current_frame = None
    /\ current_image_time - last_image_time = connection_timeout
    /\ ~stopped
    /\ stop_calls = 0

\* C8: when opening the stream raises, an error naming the camera and the
\* underlying error is logged, startup ends through exit, and recv_thread is
\* never started.
C8_OpenFailureAborts ==
    main_pc = "raised" =>
        /\ NamesCamera(error_logged)
        /\ NamesError(error_logged)
        /\ raised = "SystemExit"
        /\ recv_pc = "unstarted"

\* C9: the value a get_current_frame call returns is one current_frame held
\* at some instant between the call's first load and its return.
C9_NoInventedFrame ==
    \A c \in Callers : caller_pc[c] = "got" => result[c] \in seen[c]

\* C9 witness: a call returned while the loop stored a different value
\* during it.
C9_Witness ==
    \E c \in Callers : caller_pc[c] = "got" /\ Cardinality(seen[c]) >= 2

\* C10: close_connection and get_current_frame never wait for recv_thread:
\* each of their steps can be taken whatever the position of the loop, and so
\* can the loop's own call of close_connection.
C10_NoWaitOnLoop ==
    /\ \A c \in Callers :
         /\ caller_pc[c] = "close_set" => ENABLED CloseSet(c)
         /\ caller_pc[c] = "get_return" => ENABLED GetReturn(c)
         /\ (caller_pc[c] = "idle" /\ main_pc = "returned") => ENABLED GetCheck(c)
         /\ (caller_pc[c] = "idle" /\ main_pc = "returned" /\ stop_calls < MaxStops)
               => ENABLED CloseStop(c)
    /\ recv_pc \in LoopClosePcs => ENABLED LoopCloseStop
    /\ recv_pc = "set_stopped" => ENABLED LoopSetStopped

\* C10 witness: an external close_connection has returned (stopped is true
\* and no caller is inside a call) while the loop is still inside a read.
C10_Witness ==
    /\ stopped
    /\ recv_pc = "read"
    /\ \A c \in Callers : caller_pc[c] = "idle"

\* C11: __init__ ends with every field assignment completed and stored:
\* stopped = False, current_frame = None and show_window = False are in the
\* instance and no exception left the constructor.
C11_CreationCompletes ==
    acc_last = "__init__" =>
        /\ acc_exc = "none"
        /\ {"stopped", "current_frame", "show_window"} \subseteq DOMAIN instance_dict
        /\ instance_dict["stopped"] = "False"
        /\ instance_dict["current_frame"] = "None"
        /\ instance_dict["show_window"] = "False"

\* C12: a set_show_window(v) call returns normally with the preview flag
\* stored as v.
C12_SetShowWindowSets ==
    acc_last = "set_show_window" =>
        /\ acc_exc = "none"
        /\ "show_window" \in DOMAIN instance_dict
        /\ instance_dict["show_window"] = acc_val

\* C13: for every width nbits and every v of its signed range,
\* toIntVal(toHexVal(v, nbits)) = v.
C13_RoundTrip == codec_pc = "done" => codec_out = codec_in

\* C13 as amended: the round trip returns v for the width toIntVal decodes,
\* nbits = 16, and every v in -2^15 .. 2^15 - 1.
C13_RoundTrip16 == (codec_pc = "done" /\ codec_nbits = bits) => codec_out = codec_in

\* C13 witness: a negative 16-bit value has been encoded and decoded.
C13_Witness ==
    /\ codec_pc = "done"
    /\ codec_nbits = bits
    /\ codec_in < 0
    /\ Len(codec_hex) = 4

\* C14: with recv_thread scheduled fairly and every read returning, once
\* stopped is true the loop thread eventually exits.
C14_LoopExits == stopped ~> (recv_pc = "done")

\* C14 witness: the loop has exited after an external close_connection
\* stopped the session while a read was in flight.
C14_Witness ==
    /\ recv_pc = "done"
    /\ stopped
    /\ stop_calls = 1
    /\ reads_after_stop = 1

\* C15: after stopped has become true the loop completes at most one more
\* read, and a loop-condition check that observes stopped = true is never
\* followed by a read.
C15_BoundedGrace ==
    [][/\ reads_after_stop' <= 1
       /\ (recv_pc = "check" /\ stopped /\ recv_pc' # recv_pc) => recv_pc' = "done"]_vars

\* C15 witness: the read that was in flight when stopped became true has
\* completed and the loop is back at its condition.
C15_Witness ==
    /\ stopped
    /\ reads_after_stop = 1
    /\ recv_pc = "check"

\* C16: current_frame is modified only by the read step of the acquisition
\* loop; close_connection, get_current_frame, set_show_window and
\* start_connection leave it unchanged.
C16_SingleWriter ==
    [][current_frame' # current_frame => (recv_pc = "read" /\ recv_pc' = "eval")]_vars

\* C16 witness: a frame is stored, the session has been closed, the preview
\* flag set and a get_current_frame call has returned.
C16_Witness ==
    /\ current_frame # None
    /\ stopped
    /\ show_window
    /\ \E c \in Callers : caller_pc[c] = "got" /\ result[c] # None

\* C17: last_image_time never decreases and never exceeds the clock.
C17_ClockMonotone ==
    [][last_image_time' >= last_image_time /\ last_image_time' <= now']_vars

\* C17 witness: last_image_time has been advanced by a successful read and
\* the clock has moved on since.
C17_Witness ==
    /\ last_image_time > 0
    /\ last_image_time = current_image_time
    /\ now > last_image_time
    /\ recv_pc = "eval"

\* C18: an iteration whose read yielded a frame and whose elapsed time does
\* not exceed connection_timeout leaves that frame in current_frame and sets
\* last_image_time to the time sampled after the read.
C18_ReadPublishes ==
    [][(/\ recv_pc = "eval"
        /\ recv_pc' # "eval"
        /\ current_frame # None
        /\ current_image_time - last_image_time <= connection_timeout) =>
          /\ current_frame' = current_frame
          /\ last_image_time' = current_image_time]_vars

\* C18 witness: such an iteration has completed at a time later than the
\* previous last_image_time, and get_current_frame would return its frame.
C18_Witness ==
    /\ recv_pc = "check"
    /\ current_frame # None
    /\ last_image_time = current_image_time
    /\ last_image_time = connection_timeout
    /\ ~stopped

\* C19: the loop never performs a read on the Stream Handle after the
\* handle's stop has been executed.
C19_NoReadAfterRelease ==
    [][(recv_pc = "read" /\ recv_pc' = "eval") => stream_video = "open"]_vars
====
